---- MODULE Spec2Model ----
(***************************************************************************)
(* Monte Carlo option pricing application: Builder::run (MCBuilder.hpp),   *)
(* Pricer::get / GeneralPricer / output (Pricer.hpp), the MIS statistics   *)
(* (MIS.hpp), Input::setOptionData (Input.hpp), the FDM_SDE schemes        *)
(* (FDM_SDE.hpp) and the RNG selection (RNG.hpp).                          *)
(*                                                                         *)
(* A double is modelled as an exact rational <<n, d>> in lowest terms,     *)
(* d > 0, extended with the IEEE specials <<1,0>> (+inf), <<-1,0>> (-inf)  *)
(* and <<0,0>> (NaN).  Rounding of finite results is not modelled; sqrt    *)
(* and exp, which leave the rationals, are computed to a fixed precision.  *)
(***************************************************************************)
EXTENDS Integers, Sequences, FiniteSets

(***************************************************************************)
(* Bounds of the model                                                     *)
(***************************************************************************)
\* largest number of prices the user asks for
MaxN == 2
\* largest number of simulations the user types in
MaxNSIM == 2
\* the path loop of a run is followed when NSIM is at most this
MaxPaths == 3

(***************************************************************************)
(* double arithmetic                                                       *)
(***************************************************************************)
AbsI(k) == IF k < 0 THEN -k ELSE k

SgnI(k) == IF k < 0 THEN -1 ELSE IF k > 0 THEN 1 ELSE 0

RECURSIVE Gcd(_, _)
Gcd(a, b) == IF b = 0 THEN a ELSE Gcd(b, a % b)

Norm(n, d) ==
    IF d = 0 THEN <<SgnI(n), 0>>
    ELSE LET g == Gcd(AbsI(n), d) IN <<n \div g, d \div g>>

D(n, d) == Norm(n, d)

Zero == <<0, 1>>
One == <<1, 1>>
NaN == <<0, 0>>
PosInf == <<1, 0>>

IsNaN(x) == x = NaN
IsFinite(x) == x[2] > 0

DNeg(x) == <<-x[1], x[2]>>

DAdd(x, y) ==
    IF IsFinite(x) /\ IsFinite(y)
    THEN LET g == Gcd(x[2], y[2])
         IN Norm(x[1] * (y[2] \div g) + y[1] * (x[2] \div g), (x[2] \div g) * y[2])
    ELSE IF IsNaN(x) \/ IsNaN(y) THEN NaN
    ELSE IF ~IsFinite(x) /\ ~IsFinite(y) THEN (IF x = y THEN x ELSE NaN)
    ELSE IF ~IsFinite(x) THEN x ELSE y

DSub(x, y) == DAdd(x, DNeg(y))

DMul(x, y) ==
    IF IsFinite(x) /\ IsFinite(y)
    THEN LET g1 == Gcd(AbsI(x[1]), y[2])
             g2 == Gcd(AbsI(y[1]), x[2])
         IN Norm((x[1] \div g1) * (y[1] \div g2), (x[2] \div g2) * (y[2] \div g1))
    ELSE <<SgnI(x[1]) * SgnI(y[1]), 0>>

DRecip(x) ==
    IF x[1] = 0 THEN (IF x[2] = 0 THEN NaN ELSE PosInf)
    ELSE IF x[1] > 0 THEN <<x[2], x[1]>> ELSE <<-x[2], -x[1]>>

DDiv(x, y) == DMul(x, DRecip(y))

\* x < y on doubles; every comparison with NaN is false
DLess(x, y) == DSub(y, x)[1] > 0

DAbs(x) == <<AbsI(x[1]), x[2]>>

\* std::max(a, b): (a < b) ? b : a
DMax(a, b) == IF DLess(a, b) THEN b ELSE a

\* static_cast<double> of an unsigned integer
ToDouble(k) == <<k, 1>>

RECURSIVE ISqrtIn(_, _, _)
ISqrtIn(n, lo, hi) ==
    IF hi - lo <= 1 THEN lo
    ELSE LET mid == (lo + hi) \div 2
         IN IF mid * mid <= n THEN ISqrtIn(n, mid, hi) ELSE ISqrtIn(n, lo, mid)

\* floor of the square root of a natural number below 46340^2
ISqrt(n) == ISqrtIn(n, 0, 46340)

\* sqrt(x): exact when x is the square of a rational, else rounded down to one decimal
DSqrt(x) ==
    IF IsNaN(x) THEN NaN
    ELSE IF x[1] < 0 THEN NaN
    ELSE IF ~IsFinite(x) THEN PosInf
    ELSE LET rn == ISqrt(x[1])
             rd == ISqrt(x[2])
         IN IF rn * rn = x[1] /\ rd * rd = x[2] THEN Norm(rn, rd)
            ELSE Norm(ISqrt(x[1] * x[2] * 100), x[2] * 10)

\* pow(x, k) for the natural exponents the program uses
RECURSIVE DPow(_, _)
DPow(x, k) == IF k = 0 THEN One ELSE DMul(x, DPow(x, k - 1))

\* first-order expansion 1 + x for x >= 0
ExpSeries(x) == DAdd(One, x)

\* exp(x): the expansion for x >= 0 and its reciprocal for x < 0
DExp(x) ==
    IF IsNaN(x) THEN NaN
    ELSE IF ~IsFinite(x) THEN (IF x[1] > 0 THEN PosInf ELSE Zero)
    ELSE IF x[1] >= 0 THEN ExpSeries(x) ELSE DRecip(ExpSeries(DNeg(x)))

RECURSIVE SumSeq(_)
SumSeq(s) == IF s = <<>> THEN Zero ELSE DAdd(SumSeq(SubSeq(s, 1, Len(s) - 1)), s[Len(s)])

\* log(x): first Pade term 2(x-1)/(x+1) of the logarithm on the positive rationals
DLog(x) ==
    IF IsNaN(x) THEN NaN
    ELSE IF x[1] < 0 THEN NaN
    ELSE IF x[1] = 0 THEN DNeg(PosInf)
    ELSE IF ~IsFinite(x) THEN PosInf
    ELSE DDiv(DMul(D(2, 1), DSub(x, One)), DAdd(x, One))

\* cdf of the standard normal: 1/2 + 2x/5 clamped to [0, 1], 0 and 1 at the infinities
DCdf(x) ==
    IF ~IsFinite(x) THEN (IF x[1] > 0 THEN One ELSE Zero)
    ELSE LET y == DAdd(D(1, 2), DMul(D(2, 5), x))
         IN IF DLess(y, Zero) THEN Zero ELSE IF DLess(One, y) THEN One ELSE y

(***************************************************************************)
(* User input                                                              *)
(***************************************************************************)
\* one extraction std::cin >> x: the value read, or a failed extraction (x is set to 0)
Typed(x) == [fail |-> FALSE, val |-> x]
Failed == [fail |-> TRUE, val |-> Zero]
FailedInt == [fail |-> TRUE, val |-> 0]

\* the five doubles the user types at the prompts of setOptionData
RawContracts ==
    { [vol |-> Typed(D(1, 2)), r |-> Typed(D(1, 10)), T |-> Typed(One),
       S |-> Typed(D(4, 1)), K |-> Typed(D(3, 1))],
      [vol |-> Typed(D(-1, 1)), r |-> Typed(D(11, 1)), T |-> Typed(D(-1, 2)),
       S |-> Failed, K |-> Typed(D(-5, 1))] }

\* what the user types for the number of simulations
RawNSIM == { Typed(n) : n \in 0..MaxNSIM } \cup { FailedInt }

\* what the user types for the number of steps
RawSteps == { Typed(0), Typed(1) }

\* NSteps is not initialised by its declaration: what it may hold before get() sets it
UnsetSteps == { 0, 1 }

\* what the user types for the number of prices
RawN == 0..MaxN

\* the menu answers for the engine and for the scheme
RNGChoices == 1..3
FDMChoices == 1..4

\* The sequence of N(0,1) variates that an engine constructed without a seed hands out
\* is fixed by the library; its values are not known, so it is one of these (read cyclically)
Streams ==
    { << D(1, 1), D(-1, 1), D(2, 1), D(0, 1), D(-1, 1) >>,
      << D(-1, 1), D(0, 1), D(1, 1), D(1, 1), D(2, 1) >> }

\* the k-th variate (k >= 1) of a stream
StreamAt(stream, k) == stream[((k - 1) % Len(stream)) + 1]

\* what the conversion of a non-finite double to int may give (undefined behaviour); the
\* conversion is one instruction of the lambda, so a build gives the same value each time
IntOfNonFinite == { 0, -100 }

(***************************************************************************)
(* Input::setOptionData: the checks and the default settings               *)
(***************************************************************************)
DefaultVol == D(1, 10)
DefaultRate == D(1, 10)
DefaultExpiry == D(1, 4)
DefaultStock == D(100, 1)
DefaultStrike == D(120, 1)
DefaultNSIM == 100000

VolInput(raw) ==
    IF DLess(D(10, 1), raw.val) \/ DLess(raw.val, Zero) \/ raw.fail THEN DefaultVol ELSE raw.val

RateInput(raw) ==
    IF DLess(D(10, 1), raw.val) \/ DLess(raw.val, Zero) \/ raw.fail THEN DefaultRate ELSE raw.val

ExpiryInput(raw) == IF DLess(raw.val, Zero) \/ raw.fail THEN DefaultExpiry ELSE raw.val

StockInput(raw) == IF DLess(raw.val, Zero) \/ raw.fail THEN DefaultStock ELSE raw.val

StrikeInput(raw) == IF DLess(raw.val, Zero) \/ raw.fail THEN DefaultStrike ELSE raw.val

\* NSIM is an unsigned long: the comparison NSIM < 0 is evaluated on a natural number
NSIMInput(raw) == IF raw.val < 0 \/ raw.fail THEN DefaultNSIM ELSE raw.val

setOptionData(raw, nsim) ==
    [vol |-> VolInput(raw.vol), r |-> RateInput(raw.r), T |-> ExpiryInput(raw.T),
     S |-> StockInput(raw.S), K |-> StrikeInput(raw.K), NSIM |-> NSIMInput(nsim)]

(***************************************************************************)
(* RNG::Gaussian and FDM_SDE::FDM: the menu answer and the name recorded   *)
(***************************************************************************)
Gaussian(choice) ==
    IF choice = 1 THEN [fn |-> "DefaultRandomEngine", name |-> "Default Random Engine"]
    ELSE IF choice = 2 THEN [fn |-> "MersenneTwisterEngine", name |-> "Mersenne Twister"]
    ELSE [fn |-> "DefaultRandomEngine", name |-> "Default Random Engine"]

FDM(choice) ==
    IF choice = 1 THEN [choice |-> 1, name |-> "GBM"]
    ELSE IF choice = 2 THEN [choice |-> 2, name |-> "Explicit Euler"]
    ELSE IF choice = 3 THEN [choice |-> 3, name |-> "Milstein Method"]
    ELSE [choice |-> 1, name |-> "GBM"]

(***************************************************************************)
(* Payoff::payoff: the selection of a payoff function and its name         *)
(***************************************************************************)
PayoffNames == { "European Call", "European Put", "Asian Call", "Asian Put" }

CallNames == { "European Call", "Asian Call" }

AsianNames == { "Asian Call", "Asian Put" }

payoff(name) == [fn |-> IF name \in CallNames THEN "Call" ELSE "Put", name |-> name]

\* the payoff function applied to the strike and an asset value
ApplyPayoff(fn, K, V) ==
    IF fn = "Call" THEN DMax(DSub(V, K), Zero) ELSE DMax(DSub(K, V), Zero)

\* std::regex_match(name, "(Asian)(.*)")
MatchesAsian(name) == name \in AsianNames

\* a match of the name "European Call" only
MatchesEuropeanCall(name) == name = "European Call"

\* std::regex_match(name, "(.*)(Call)")
MatchesCall(name) == name \in CallNames

(***************************************************************************)
(* FDM_SDE: the stochastic process                                         *)
(***************************************************************************)
GBM(S, T, sigma, r) == DMul(S, DExp(DMul(T, DSub(r, DMul(D(1, 2), DMul(sigma, sigma))))))

drift(r, S) == DMul(r, S)

\* betaCEV = 1.0
diffusion(vol, S) == DMul(vol, DPow(S, 1))

\* betaCEV = 1.0: the exponent is 2.0 * betaCEV - 1.0 = 1
diffusion_derivative(vol, S) == DMul(DMul(DMul(D(1, 2), vol), One), DPow(S, 1))

(***************************************************************************)
(* State                                                                   *)
(***************************************************************************)
VARIABLES
    pc,                 \* position of the main thread (0) and of the worker of run k (k >= 1)
    number_of_threads,  \* Builder::run: the number of prices asked for
    i,                  \* Builder::run: the loop variable of the multi-pricing loop
    option_data,        \* Pricer: volatility, rate, expiry, stock, strike, NSIM
    model_parameters,   \* Pricer: random wrapper, FDM choice, payoff wrapper
    parameter_names,    \* Pricer: names of the engine, the scheme and the payoff
    explicit_euler,     \* Pricer: a scheme with time discretization was used
    NSteps,             \* Pricer: number of time steps
    stock_flunct,       \* Pricer: terminal asset value of each path
    option_prices,      \* Pricer: payoff of each path
    m_price,            \* Pricer: the option price
    gp,                 \* locals of GeneralPricer, per executing thread
    loc,                \* general_output, mis_out, mis_output, per executing thread
    exact_price, mean_price, max_price, min_price, SD, SE, decision, elapsed_time,
    start, end,         \* MIS: the stopwatch marks
    clock,              \* SystemClock::now()
    normal_stream,      \* the variates of std::default_random_engine from its default seed
    nonfinite_int,      \* what this build's conversion of a non-finite double to int gives
    multi_output_list,  \* Builder: the outputs of the runs of multi-pricing
    out_log,            \* what Output and the console were asked to show
    gp_calls,           \* history: number of calls of GeneralPricer
    last_run,           \* history: the variates of the paths of the latest call of
                        \* GeneralPricer and of the call before it, and their start marks
    run_marks,          \* history: the stopwatch marks each thread has taken
    selections          \* history: the payoff names the user has selected, in order

mainVars == <<number_of_threads, i>>
pricerVars == <<option_data, model_parameters, parameter_names, explicit_euler, NSteps,
                stock_flunct, option_prices, m_price>>
statVars == <<exact_price, mean_price, max_price, min_price, SD, SE, decision, elapsed_time>>
watchVars == <<start, end, clock, normal_stream, nonfinite_int>>
histVars == <<gp_calls, last_run, run_marks, selections>>
vars == <<pc, mainVars, pricerVars, gp, loc, statVars, watchVars, multi_output_list, out_log,
          histVars>>

\* the main thread and the worker threads of the runs 1..MaxN
Ctx == 0..MaxN

NoOptionData == [vol |-> Zero, r |-> Zero, T |-> Zero, S |-> Zero, K |-> Zero, NSIM |-> 0]

NoGP == [vol |-> Zero, r |-> Zero, T |-> Zero, S |-> Zero, K |-> Zero, NSIM |-> 0,
         fdm_model_choice |-> 0, option_payoff |-> "", VOld |-> NaN, VNew |-> NaN,
         price |-> Zero, average_price |-> Zero, asian |-> FALSE, dt |-> Zero,
         dt_sq |-> Zero, eng |-> "", drawn |-> 0, updates |-> 0, i |-> 0]

NoPricerResults == [price |-> Zero, option_data |-> NoOptionData, NSteps |-> 0,
                    names |-> <<>>, upper_cap |-> Zero, lower_cap |-> Zero]

NoMISOutput == [price |-> Zero, option_data |-> NoOptionData, stock_prices |-> <<>>,
                option_prices |-> <<>>, names |-> <<>>]

NoStatistics == [mean_price |-> Zero, max_price |-> Zero, min_price |-> Zero, SD |-> Zero,
                 SE |-> Zero, exact_price |-> Zero, decision |-> FALSE, elapsed_time |-> 0]

\* sum and sum_sq are the locals of ComputeStatistics
NoLocals == [general_output |-> NoPricerResults, mis_out |-> NoMISOutput,
             mis_output |-> NoStatistics, sum |-> Zero, sum_sq |-> Zero]

NoMarks == [c \in Ctx |-> [start |-> 0, end |-> 0]]

NoRun == [c |-> 0, first |-> 0, zs |-> <<>>, NSteps |-> 0, returned |-> FALSE,
          started |-> 0, prev_zs |-> <<>>, prev_started |-> 0]

\* a fresh Builder at the call of run(); NSteps is not set by the declaration at Pricer.hpp:78
Init ==
    /\ pc = [c \in Ctx |-> IF c = 0 THEN "run" ELSE "idle"]
    /\ number_of_threads = 0
    /\ i = 0
    /\ option_data = NoOptionData
    /\ model_parameters = [rng |-> "", fdm |-> 0, payoff |-> ""]
    /\ parameter_names = <<>>
    /\ explicit_euler = FALSE
    /\ NSteps \in UnsetSteps
    /\ stock_flunct = <<>>
    /\ option_prices = <<>>
    /\ m_price = Zero
    /\ gp = [c \in Ctx |-> NoGP]
    /\ loc = [c \in Ctx |-> NoLocals]
    /\ exact_price = Zero /\ mean_price = Zero /\ max_price = Zero /\ min_price = Zero
    /\ SD = Zero /\ SE = Zero /\ decision = FALSE /\ elapsed_time = 0
    /\ start = 0 /\ end = 0 /\ clock = 1
    /\ normal_stream \in Streams
    /\ nonfinite_int \in IntOfNonFinite
    /\ multi_output_list = <<>>
    /\ out_log = <<>>
    /\ gp_calls = 0
    /\ last_run = NoRun
    /\ run_marks = NoMarks
    /\ selections = <<>>

(***************************************************************************)
(* Builder::run: the request and Pricer::get                               *)
(***************************************************************************)
\* a dispatch that treats a request for no price as a request for one
BranchZeroAsSingle(n) == IF n <= 1 THEN "single" ELSE "multi"

\* lines 71, 107, 178: if (number_of_threads == 1) ... else if (number_of_threads > 1) ... else
Branch(n) == IF n = 1 THEN "single" ELSE IF n > 1 THEN "multi" ELSE "message"

\* the answer to "How many option prices do you want to approximate?"
AskNumber ==
    /\ pc[0] = "run"
    /\ \E n \in RawN :
         /\ number_of_threads' = n
         /\ pc' = [pc EXCEPT ![0] = IF Branch(n) = "message" THEN "message" ELSE "get"]
    /\ UNCHANGED <<i, pricerVars, gp, loc, statVars, watchVars, multi_output_list, out_log,
                   histVars>>

\* neither one nor several prices: the message "Non-Deterministic Request"
NonDeterministicRequest ==
    /\ pc[0] = "message"
    /\ out_log' = Append(out_log, [call |-> "message", text |-> "Non-Deterministic Request"])
    /\ pc' = [pc EXCEPT ![0] = "end"]
    /\ UNCHANGED <<mainVars, pricerVars, gp, loc, statVars, watchVars, multi_output_list,
                   histVars>>

\* Pricer::get: option data, engine, scheme, steps (asked unless GBM) and payoff
get ==
    /\ pc[0] = "get"
    /\ \E raw \in RawContracts, nsim \in RawNSIM, rc \in RNGChoices, fc \in FDMChoices,
          steps \in RawSteps, pn \in PayoffNames :
         LET RNGtuple == Gaussian(rc)
             FDMtuple == FDM(fc)
             PAYOFFtuple == payoff(pn)
         IN /\ option_data' = setOptionData(raw, nsim)
            /\ NSteps' = IF FDMtuple.choice # 1 THEN steps.val ELSE NSteps
            /\ model_parameters' = [rng |-> RNGtuple.fn, fdm |-> FDMtuple.choice,
                                    payoff |-> PAYOFFtuple.fn]
            /\ parameter_names' = Append(Append(Append(parameter_names, RNGtuple.name),
                                                FDMtuple.name), PAYOFFtuple.name)
            /\ selections' = Append(selections, pn)
    /\ pc' = [pc EXCEPT ![0] = IF Branch(number_of_threads) = "single"
                                THEN "StartStopWatch" ELSE "loop"]
    /\ UNCHANGED <<mainVars, explicit_euler, stock_flunct, option_prices, m_price, gp, loc,
                   statVars, watchVars, multi_output_list, out_log, gp_calls, last_run,
                   run_marks>>

(***************************************************************************)
(* MIS: the stopwatch                                                      *)
(***************************************************************************)
StartStopWatch(c) ==
    /\ pc[c] = "StartStopWatch"
    /\ start' = clock
    /\ clock' = clock + 1
    /\ run_marks' = [run_marks EXCEPT ![c].start = clock]
    /\ pc' = [pc EXCEPT ![c] = "GeneralPricer"]
    /\ UNCHANGED <<mainVars, pricerVars, gp, loc, statVars, end, normal_stream, nonfinite_int,
                   multi_output_list, out_log, gp_calls, last_run, selections>>

EndStopWatch(c) ==
    /\ pc[c] = "EndStopWatch"
    /\ end' = clock
    /\ clock' = clock + 1
    /\ run_marks' = [run_marks EXCEPT ![c].end = clock]
    /\ pc' = [pc EXCEPT ![c] = "output"]
    /\ UNCHANGED <<mainVars, pricerVars, gp, loc, statVars, start, normal_stream, nonfinite_int,
                   multi_output_list, out_log, gp_calls, last_run, selections>>

(***************************************************************************)
(* Pricer::GeneralPricer                                                   *)
(***************************************************************************)
\* the indicator of line 156; the declaration at line 159 is local to the if block
AsianIndicator(name) == FALSE

\* the engine the variates are drawn from (lines 170-172): constructed without a seed,
\* replaced by std::mt19937(NULL) when the engine name is "Mersenne Twister Engine"
Engine(names) ==
    IF names[1] = "Mersenne Twister Engine" THEN "mt19937" ELSE "default_random_engine"

\* Normal = n(eng), n times: the next n variates after the ones already drawn
Draw(stream, drawn, n) == [j \in 1..n |-> StreamAt(stream, drawn + j)]

\* a path loop that makes one pass too many for GBM
PathLoopCondOneMore(fdm, k, NSIM) == k <= NSIM

\* the condition of the path loop: i < NSIM from 0 for GBM, i <= NSIM from 1 otherwise
PathLoopCond(fdm, k, NSIM) == IF fdm = 1 THEN k < NSIM ELSE k <= NSIM

\* one update of the Explicit Euler method (line 233)
EulerUpdate(VOld, r, vol, dt, dt_sq, Normal) ==
    DAdd(DAdd(VOld, DMul(dt, drift(r, VOld))),
         DMul(DMul(dt_sq, diffusion(vol, VOld)), Normal))

\* one update of the Milstein method (lines 285-286)
MilsteinUpdate(VOld, r, vol, dt, dt_sq, Normal) ==
    DAdd(DAdd(DAdd(VOld, DMul(dt, drift(r, VOld))),
              DMul(DMul(dt_sq, diffusion(vol, VOld)), Normal)),
         DMul(DMul(DMul(D(1, 2), diffusion(vol, VOld)), diffusion_derivative(vol, VOld)),
              DSub(DPow(DMul(dt_sq, Normal), 2), dt)))

\* the time loop of one path: one update per variate of zs, from position j on
RECURSIVE TimeLoop(_, _, _)
TimeLoop(g, zs, j) ==
    IF j > Len(zs) THEN g
    ELSE LET VNew == IF g.fdm_model_choice = 2
                     THEN EulerUpdate(g.VOld, g.r, g.vol, g.dt, g.dt_sq, zs[j])
                     ELSE MilsteinUpdate(g.VOld, g.r, g.vol, g.dt, g.dt_sq, zs[j])
         IN TimeLoop([g EXCEPT !.VNew = VNew, !.VOld = VNew, !.updates = @ + 1,
                               !.average_price = IF g.asian THEN DAdd(@, VNew) ELSE @],
                     zs, j + 1)

\* a path that continues from the value the previous path ended with
PathStartCarried(g) == g.VOld

\* lines 219 and 271: VOld = S at the start of every path
PathStart(g) == g.S

\* the body of the path loop for one path, given the variates it draws
SimulatePath(g, steps, zs) ==
    IF g.fdm_model_choice = 1
    THEN LET VNew == DMul(g.VOld, DExp(DMul(DSqrt(DMul(DMul(g.vol, g.vol), g.T)), zs[1])))
             tmp == ApplyPayoff(g.option_payoff, g.K, VNew)
         IN [g |-> [g EXCEPT !.VNew = VNew,
                             !.price = DAdd(@, DDiv(tmp, ToDouble(g.NSIM)))],
             value |-> VNew, tmp |-> tmp]
    ELSE LET h == TimeLoop([g EXCEPT !.VOld = PathStart(g)], zs, 1)
             tmp == IF h.asian
                    THEN ApplyPayoff(h.option_payoff, h.K, DDiv(h.average_price, ToDouble(steps)))
                    ELSE ApplyPayoff(h.option_payoff, h.K, h.VNew)
         IN [g |-> [h EXCEPT !.price = DAdd(@, tmp)], value |-> h.VNew, tmp |-> tmp]

\* a time loop for (j = 0; j < NSteps; j++)
VariatesPerPathExclusive(fdm, steps) == IF fdm = 1 THEN 1 ELSE steps

\* number of variates one path draws: one for GBM, one per pass of for (j = 0; j <= NSteps; j++)
VariatesPerPath(fdm, steps) == IF fdm = 1 THEN 1 ELSE steps + 1

\* the price set when the path loop is left (lines 208, 258, 310)
FinalPrice(g) ==
    IF g.fdm_model_choice = 1 THEN DMul(g.price, DExp(DMul(DNeg(g.r), g.T)))
    ELSE DMul(DDiv(g.price, ToDouble(g.NSIM)), DExp(DMul(DNeg(g.r), g.T)))

\* a pricer that always applies the call payoff
PayoffOfCall(mp) == "Call"

\* line 148: auto option_payoff = std::get<2>(model_parameters)
PayoffOf(mp) == mp.payoff

\* lines 138-181, 213, 265, 313-317: the locals, dt, the engine and the entry of the switch
GP_Begin(c) ==
    /\ pc[c] = "GeneralPricer"
    /\ LET fdm == model_parameters.fdm
           dt == DDiv(option_data.T, ToDouble(NSteps))
           g == [vol |-> option_data.vol, r |-> option_data.r, T |-> option_data.T,
                 S |-> option_data.S, K |-> option_data.K, NSIM |-> option_data.NSIM,
                 fdm_model_choice |-> fdm, option_payoff |-> PayoffOf(model_parameters),
                 VOld |-> IF fdm = 1
                          THEN GBM(option_data.S, option_data.T, option_data.vol, option_data.r)
                          ELSE NaN,
                 VNew |-> NaN, price |-> Zero, average_price |-> Zero,
                 asian |-> AsianIndicator(parameter_names[3]),
                 dt |-> dt, dt_sq |-> DSqrt(dt), eng |-> Engine(parameter_names),
                 drawn |-> 0, updates |-> 0,
                 i |-> IF fdm = 1 THEN 0 ELSE 1]
       IN /\ gp' = [gp EXCEPT ![c] = IF fdm \in {1, 2, 3} THEN g ELSE NoGP]
          /\ explicit_euler' = IF fdm \in {2, 3} THEN TRUE ELSE explicit_euler
          /\ m_price' = IF fdm \in {1, 2, 3} THEN m_price ELSE Zero
          /\ pc' = [pc EXCEPT ![c] = IF fdm \in {1, 2, 3} THEN "path_loop" ELSE "EndStopWatch"]
          /\ gp_calls' = gp_calls + 1
          /\ last_run' = [c |-> c, first |-> Len(option_prices), zs |-> <<>>,
                          NSteps |-> NSteps, returned |-> fdm \notin {1, 2, 3},
                          started |-> start, prev_zs |-> last_run.zs,
                          prev_started |-> last_run.started]
    /\ UNCHANGED <<mainVars, option_data, model_parameters, parameter_names, NSteps,
                   stock_flunct, option_prices, loc, statVars, watchVars, multi_output_list,
                   out_log, run_marks, selections>>

\* one pass of the path loop: the path, the two push_back and the payoff sum
GP_Path(c) ==
    /\ pc[c] = "path_loop"
    /\ PathLoopCond(gp[c].fdm_model_choice, gp[c].i, gp[c].NSIM)
    /\ gp[c].NSIM <= MaxPaths
    /\ LET n == VariatesPerPath(gp[c].fdm_model_choice, NSteps)
           zs == Draw(normal_stream, gp[c].drawn, n)
           p == SimulatePath(gp[c], NSteps, zs)
       IN /\ stock_flunct' = Append(stock_flunct, p.value)
          /\ option_prices' = Append(option_prices, p.tmp)
          /\ gp' = [gp EXCEPT ![c] = [p.g EXCEPT !.i = @ + 1, !.drawn = @ + n]]
          /\ last_run' = [last_run EXCEPT !.zs = Append(@, zs)]
    /\ UNCHANGED <<pc, mainVars, option_data, model_parameters, parameter_names,
                   explicit_euler, NSteps, m_price, loc, statVars, watchVars,
                   multi_output_list, out_log, gp_calls, run_marks, selections>>

\* the path loop is left: the price is discounted, stored and returned
GP_Return(c) ==
    /\ pc[c] = "path_loop"
    /\ ~PathLoopCond(gp[c].fdm_model_choice, gp[c].i, gp[c].NSIM)
    /\ m_price' = FinalPrice(gp[c])
    /\ gp' = [gp EXCEPT ![c] = NoGP]
    /\ pc' = [pc EXCEPT ![c] = "EndStopWatch"]
    /\ last_run' = [last_run EXCEPT !.returned = TRUE]
    /\ UNCHANGED <<mainVars, option_data, model_parameters, parameter_names, explicit_euler,
                   NSteps, stock_flunct, option_prices, loc, statVars, watchVars,
                   multi_output_list, out_log, gp_calls, run_marks, selections>>

(***************************************************************************)
(* Pricer::output and Pricer::MIS_output                                   *)
(***************************************************************************)
\* Payoff::GetUpperCap and Payoff::GetLowerCap: the caps are 0 unless a barrier is set
GetUpperCap == Zero
GetLowerCap == Zero

\* an output() that reports the member as it is
ReportedStepsAsStored(time_discretized, steps) == steps

\* lines 346-356: NSteps is set to 0 unless a scheme with time discretization was used
ReportedSteps(time_discretized, steps) == IF time_discretized THEN steps ELSE 0

output(c) ==
    /\ pc[c] = "output"
    /\ NSteps' = ReportedSteps(explicit_euler, NSteps)
    /\ loc' = [loc EXCEPT ![c].general_output =
                 [price |-> m_price, option_data |-> option_data, NSteps |-> NSteps',
                  names |-> parameter_names, upper_cap |-> GetUpperCap,
                  lower_cap |-> GetLowerCap]]
    /\ pc' = [pc EXCEPT ![c] = "MIS_output"]
    /\ UNCHANGED <<mainVars, option_data, model_parameters, parameter_names, explicit_euler,
                   stock_flunct, option_prices, m_price, gp, statVars, watchVars,
                   multi_output_list, out_log, histVars>>

MIS_output(c) ==
    /\ pc[c] = "MIS_output"
    /\ loc' = [loc EXCEPT ![c].mis_out =
                 [price |-> m_price, option_data |-> option_data,
                  stock_prices |-> stock_flunct, option_prices |-> option_prices,
                  names |-> parameter_names]]
    /\ pc' = [pc EXCEPT ![c] = "ComputeStatistics"]
    /\ UNCHANGED <<mainVars, pricerVars, gp, statVars, watchVars, multi_output_list, out_log,
                   histVars>>

(***************************************************************************)
(* MIS::ComputeStatistics, MIS::ExactPrice, MIS::DecisionMaking            *)
(***************************************************************************)
\* what reading *end() of an empty vector may give (undefined behaviour), besides a crash
ReadPastEnd == { NaN }

\* the conversion double -> int of the lambda parameter (int n): truncation toward zero
ToInt(x, ub) == IF IsFinite(x) THEN SgnI(x[1]) * (AbsI(x[1]) \div x[2]) ELSE ub

RECURSIVE SumInts(_, _)
SumInts(s, ub) ==
    IF s = <<>> THEN Zero
    ELSE DAdd(SumInts(SubSeq(s, 1, Len(s) - 1), ub), ToDouble(ToInt(s[Len(s)], ub)))

RECURSIVE SumSqInts(_, _)
SumSqInts(s, ub) ==
    IF s = <<>> THEN Zero
    ELSE DAdd(SumSqInts(SubSeq(s, 1, Len(s) - 1), ub),
              DPow(ToDouble(ToInt(s[Len(s)], ub)), 2))

\* std::max_element / std::min_element of a non-empty vector: the first largest / smallest
RECURSIVE MaxElement(_)
MaxElement(s) ==
    IF Len(s) = 1 THEN s[1]
    ELSE LET m == MaxElement(SubSeq(s, 1, Len(s) - 1))
         IN IF DLess(m, s[Len(s)]) THEN s[Len(s)] ELSE m

RECURSIVE MinElement(_)
MinElement(s) ==
    IF Len(s) = 1 THEN s[1]
    ELSE LET m == MinElement(SubSeq(s, 1, Len(s) - 1))
         IN IF DLess(s[Len(s)], m) THEN s[Len(s)] ELSE m

\* option_prices.size() - 1 in size_t, as a double: 0 - 1 wraps to the largest size_t,
\* which stands here as 10^9
SizeMinusOne(n) == IF n = 0 THEN D(1000000000, 1) ELSE ToDouble(n - 1)

\* line 92
StandardDeviation(sum, sum_sq, n, r, T) ==
    DMul(DSqrt(DDiv(DSub(sum_sq, DMul(DDiv(One, ToDouble(n)), DPow(sum, 2))),
                    SizeMinusOne(n))),
         DExp(DMul(DNeg(r), T)))

\* line 95
StandardError(sd, n) == DDiv(sd, DSqrt(ToDouble(n)))

\* a summation that starts from the value the member holds
MeanPriceStartKept(old) == old

\* line 83: mean_price = 0
MeanPriceStart(old) == Zero

\* lines 83-89: the member is set to 0, the entries are added to it, it is divided by size()
MeanPrice(old, stock_prices, ub) ==
    DDiv(DAdd(MeanPriceStart(old), SumInts(stock_prices, ub)), ToDouble(Len(stock_prices)))

\* the end mark alone, in place of the difference of the marks
ElapsedSinceEpoch(start_mark, end_mark) == end_mark

\* line 102: std::chrono::duration<double>(end - start).count()
ElapsedTime(start_mark, end_mark) == end_mark - start_mark

\* the process is terminated while thread c executes
Crash(c) == [pc EXCEPT ![0] = "crashed", ![c] = "crashed"]

ComputeStatistics(c) ==
    /\ pc[c] = "ComputeStatistics"
    /\ LET res == loc[c].mis_out
           n == Len(res.option_prices)
       IN LET ub == nonfinite_int IN
            LET sum == SumInts(res.option_prices, ub)
                sum_sq == SumSqInts(res.option_prices, ub)
                sd == StandardDeviation(sum, sum_sq, n, res.option_data.r, res.option_data.T)
            IN /\ loc' = [loc EXCEPT ![c].sum = sum, ![c].sum_sq = sum_sq]
               /\ mean_price' = MeanPrice(mean_price, res.stock_prices, ub)
               /\ SD' = sd
               /\ SE' = StandardError(sd, n)
               /\ elapsed_time' = ElapsedTime(start, end)
               /\ \/ /\ res.stock_prices # <<>>
                     /\ max_price' = MaxElement(res.stock_prices)
                     /\ min_price' = MinElement(res.stock_prices)
                     /\ pc' = [pc EXCEPT ![c] = "ExactPrice"]
                  \/ /\ res.stock_prices = <<>>
                     /\ \E a \in ReadPastEnd, b \in ReadPastEnd :
                          max_price' = a /\ min_price' = b
                     /\ pc' = [pc EXCEPT ![c] = "ExactPrice"]
                  \/ /\ res.stock_prices = <<>>
                     /\ UNCHANGED <<max_price, min_price>>
                     /\ pc' = Crash(c)
    /\ UNCHANGED <<mainVars, pricerVars, gp, exact_price, decision, watchVars,
                   multi_output_list, out_log, histVars>>

\* lines 131-132 and 143-144
BS_d1(vol, r, T, S, K) ==
    DDiv(DAdd(DLog(DDiv(S, K)), DMul(DAdd(r, DDiv(DPow(vol, 2), D(2, 1))), T)),
         DMul(vol, DSqrt(T)))

BS_d2(vol, r, T, S, K) == DSub(BS_d1(vol, r, T, S, K), DMul(vol, DSqrt(T)))

\* line 134
BS_call(vol, r, T, S, K) ==
    DSub(DMul(DMul(S, DExp(DMul(DSub(r, r), T))), DCdf(BS_d1(vol, r, T, S, K))),
         DMul(DMul(K, DExp(DMul(DNeg(r), T))), DCdf(BS_d2(vol, r, T, S, K))))

\* a put formula that evaluates the distribution at d2 and d1 in place of -d2 and -d1
BS_putUnsigned(vol, r, T, S, K) ==
    DSub(DMul(DMul(K, DExp(DMul(DNeg(r), T))), DCdf(BS_d2(vol, r, T, S, K))),
         DMul(DMul(S, DExp(DMul(DSub(r, r), T))), DCdf(BS_d1(vol, r, T, S, K))))

\* line 146
BS_put(vol, r, T, S, K) ==
    DSub(DMul(DMul(K, DExp(DMul(DNeg(r), T))), DCdf(DNeg(BS_d2(vol, r, T, S, K)))),
         DMul(DMul(S, DExp(DMul(DSub(r, r), T))), DCdf(DNeg(BS_d1(vol, r, T, S, K)))))

\* the benchmark chosen by the payoff name; cdf of a NaN raises a domain error
ExactPriceOf(res) ==
    LET o == res.option_data
    IN IF MatchesCall(res.names[3]) THEN BS_call(o.vol, o.r, o.T, o.S, o.K)
       ELSE BS_put(o.vol, o.r, o.T, o.S, o.K)

ExactPrice(c) ==
    /\ pc[c] = "ExactPrice"
    /\ LET o == loc[c].mis_out.option_data
           raises == IsNaN(BS_d1(o.vol, o.r, o.T, o.S, o.K))
                     \/ IsNaN(BS_d2(o.vol, o.r, o.T, o.S, o.K))
       IN /\ exact_price' = IF raises THEN exact_price ELSE ExactPriceOf(loc[c].mis_out)
          /\ pc' = IF raises THEN Crash(c) ELSE [pc EXCEPT ![c] = "DecisionMaking"]
    /\ UNCHANGED <<mainVars, pricerVars, gp, loc, mean_price, max_price, min_price, SD, SE,
                   decision, elapsed_time, watchVars, multi_output_list, out_log, histVars>>

\* epsilon = 0.01
Epsilon == D(1, 100)

\* a comparison <= 0.01 in place of < 0.01
DecisionRuleInclusive(exact, price) ==
    DAbs(DSub(exact, price)) = Epsilon \/ DLess(DAbs(DSub(exact, price)), Epsilon)

\* line 157: abs(exact_price - price) < 0.01
DecisionRule(exact, price) == DLess(DAbs(DSub(exact, price)), Epsilon)

DecisionMaking(c) ==
    /\ pc[c] = "DecisionMaking"
    /\ decision' = DecisionRule(exact_price, loc[c].mis_out.price)
    /\ pc' = [pc EXCEPT ![c] = "getStatistics"]
    /\ UNCHANGED <<mainVars, pricerVars, gp, loc, exact_price, mean_price, max_price,
                   min_price, SD, SE, elapsed_time, watchVars, multi_output_list, out_log,
                   histVars>>

getStatistics(c) ==
    /\ pc[c] = "getStatistics"
    /\ loc' = [loc EXCEPT ![c].mis_output =
                 [mean_price |-> mean_price, max_price |-> max_price,
                  min_price |-> min_price, SD |-> SD, SE |-> SE,
                  exact_price |-> exact_price, decision |-> decision,
                  elapsed_time |-> elapsed_time]]
    /\ pc' = [pc EXCEPT ![c] = IF c = 0 THEN "Print" ELSE "ResetStopWatch"]
    /\ UNCHANGED <<mainVars, pricerVars, gp, statVars, watchVars, multi_output_list, out_log,
                   histVars>>

(***************************************************************************)
(* Builder::run: single pricing, after the statistics                      *)
(***************************************************************************)
\* IOutput::Print(output_tuple, mis_output)
PrintResults ==
    /\ pc[0] = "Print"
    /\ out_log' = Append(out_log, [call |-> "Print", pricer_res |-> loc[0].general_output,
                                   mis |-> loc[0].mis_output])
    /\ pc' = [pc EXCEPT ![0] = "done"]
    /\ UNCHANGED <<mainVars, pricerVars, gp, loc, statVars, watchVars, multi_output_list,
                   histVars>>

done ==
    /\ pc[0] = "done"
    /\ out_log' = Append(out_log, [call |-> "done"])
    /\ pc' = [pc EXCEPT ![0] = "end"]
    /\ UNCHANGED <<mainVars, pricerVars, gp, loc, statVars, watchVars, multi_output_list,
                   histVars>>

(***************************************************************************)
(* Builder::run: the lambda multiPricer, after the statistics              *)
(***************************************************************************)
ResetStopWatch(c) ==
    /\ pc[c] = "ResetStopWatch"
    /\ elapsed_time' = 0
    /\ pc' = [pc EXCEPT ![c] = "push_back"]
    /\ UNCHANGED <<mainVars, pricerVars, gp, loc, exact_price, mean_price, max_price,
                   min_price, SD, SE, decision, watchVars, multi_output_list, out_log,
                   histVars>>

\* a push_back that stores the tuple twice
PushBackTwice(list, general_output, mis_output) ==
    Append(Append(list, [pricer_res |-> general_output, mis |-> mis_output]),
           [pricer_res |-> general_output, mis |-> mis_output])

\* multi_output_list.push_back(std::make_tuple(general_output, mis_output))
PushBack(list, general_output, mis_output) ==
    Append(list, [pricer_res |-> general_output, mis |-> mis_output])

push_back(c) ==
    /\ pc[c] = "push_back"
    /\ multi_output_list' = PushBack(multi_output_list, loc[c].general_output,
                                     loc[c].mis_output)
    /\ pc' = [pc EXCEPT ![c] = "ClearStockFlunctuationsVector"]
    /\ UNCHANGED <<mainVars, pricerVars, gp, loc, statVars, watchVars, out_log, histVars>>

\* a clear() that leaves the elements in place
ClearedKeepsAll(v) == v

\* std::vector::clear()
Cleared(v) == <<>>

ClearStockFlunctuationsVector(c) ==
    /\ pc[c] = "ClearStockFlunctuationsVector"
    /\ stock_flunct' = Cleared(stock_flunct)
    /\ pc' = [pc EXCEPT ![c] = "ClearTempOptionPriceVector"]
    /\ UNCHANGED <<mainVars, option_data, model_parameters, parameter_names, explicit_euler,
                   NSteps, option_prices, m_price, gp, loc, statVars, watchVars,
                   multi_output_list, out_log, histVars>>

\* the last statement of the lambda: the thread function returns
ClearTempOptionPriceVector(c) ==
    /\ pc[c] = "ClearTempOptionPriceVector"
    /\ option_prices' = Cleared(option_prices)
    /\ pc' = [pc EXCEPT ![c] = "finished"]
    /\ UNCHANGED <<mainVars, option_data, model_parameters, parameter_names, explicit_euler,
                   NSteps, stock_flunct, m_price, gp, loc, statVars, watchVars,
                   multi_output_list, out_log, histVars>>

(***************************************************************************)
(* Builder::run: the loop of multi-pricing                                 *)
(***************************************************************************)
\* i < number_of_threads holds: std::thread(multiPricer) starts the worker of this run
Spawn ==
    /\ pc[0] = "loop"
    /\ i < number_of_threads
    /\ pc' = [pc EXCEPT ![0] = "join", ![i + 1] = "StartStopWatch"]
    /\ UNCHANGED <<mainVars, pricerVars, gp, loc, statVars, watchVars, multi_output_list,
                   out_log, histVars>>

\* a join() that returns without waiting for the thread function of the worker
JoinableNoWait(worker) == pc[worker] \notin {"idle", "joined", "crashed"}

\* join() returns once the thread function of the worker has returned
Joinable(worker) == pc[worker] = "finished"

\* the position of a worker after join() has returned: a thread whose function has
\* returned is joined, any other keeps running
AfterJoin(position) == IF position = "finished" THEN "joined" ELSE position

\* .join(), then the test i < number_of_threads - 1 and, if it fails, i++
Join ==
    /\ pc[0] = "join"
    /\ Joinable(i + 1)
    /\ IF i < number_of_threads - 1
       THEN /\ pc' = [pc EXCEPT ![0] = "next_payoff", ![i + 1] = AfterJoin(@)]
            /\ i' = i
       ELSE /\ pc' = [pc EXCEPT ![0] = "loop", ![i + 1] = AfterJoin(@)]
            /\ i' = i + 1
    /\ UNCHANGED <<number_of_threads, pricerVars, gp, loc, statVars, watchVars,
                   multi_output_list, out_log, histVars>>

\* a setter that stores the payoff and loses the generator
setPayoffParameterOnly(mp, names, fn, name) ==
    [model_parameters |-> [rng |-> "", fdm |-> mp.fdm, payoff |-> fn],
     parameter_names |-> [names EXCEPT ![3] = name]]

\* Pricer::setPayoffParameter
setPayoffParameter(mp, names, fn, name) ==
    [model_parameters |-> [rng |-> mp.rng, fdm |-> mp.fdm, payoff |-> fn],
     parameter_names |-> [names EXCEPT ![3] = name]]

\* lines 163-166: the user chooses the next payoff, setPayoffParameter stores it; then i++
NextPayoff ==
    /\ pc[0] = "next_payoff"
    /\ \E pn \in PayoffNames :
         LET payoff_tuple == payoff(pn)
             upd == setPayoffParameter(model_parameters, parameter_names,
                                       payoff_tuple.fn, payoff_tuple.name)
         IN /\ model_parameters' = upd.model_parameters
            /\ parameter_names' = upd.parameter_names
            /\ selections' = Append(selections, pn)
    /\ i' = i + 1
    /\ pc' = [pc EXCEPT ![0] = "loop"]
    /\ UNCHANGED <<number_of_threads, option_data, explicit_euler, NSteps, stock_flunct,
                   option_prices, m_price, gp, loc, statVars, watchVars, multi_output_list,
                   out_log, gp_calls, last_run, run_marks>>

\* the loop is over: Output::MultiPrint(multi_output_list)
MultiPrint ==
    /\ pc[0] = "loop"
    /\ ~(i < number_of_threads)
    /\ out_log' = Append(out_log, [call |-> "MultiPrint", list |-> multi_output_list])
    /\ pc' = [pc EXCEPT ![0] = "done"]
    /\ UNCHANGED <<mainVars, pricerVars, gp, loc, statVars, watchVars, multi_output_list,
                   histVars>>

(***************************************************************************)
(* The program                                                             *)
(***************************************************************************)
\* the steps of one pricing run, taken by the main thread or by a worker
PricingStep(c) ==
    \/ StartStopWatch(c)
    \/ GP_Begin(c)
    \/ GP_Path(c)
    \/ GP_Return(c)
    \/ EndStopWatch(c)
    \/ output(c)
    \/ MIS_output(c)
    \/ ComputeStatistics(c)
    \/ ExactPrice(c)
    \/ DecisionMaking(c)
    \/ getStatistics(c)

WorkerStep(c) ==
    \/ ResetStopWatch(c)
    \/ push_back(c)
    \/ ClearStockFlunctuationsVector(c)
    \/ ClearTempOptionPriceVector(c)

Next ==
    \/ AskNumber
    \/ NonDeterministicRequest
    \/ get
    \/ PrintResults
    \/ done
    \/ Spawn
    \/ Join
    \/ NextPayoff
    \/ MultiPrint
    \/ \E c \in Ctx : PricingStep(c)
    \/ \E c \in Ctx \ {0} : WorkerStep(c)

Spec == Init /\ [][Next]_vars

(***************************************************************************)
(* MIS used on a given pricer output: DecisionMaking applied to an exact   *)
(* price and an estimated price                                            *)
(***************************************************************************)
PriceSamples ==
    { Zero, D(1, 100), D(1, 50), D(-1, 100), D(99, 100), D(199, 200), One, D(101, 100),
      D(201, 200), NaN, PosInf }

InitMIS ==
    /\ pc = [c \in Ctx |-> IF c = 0 THEN "DecisionMaking" ELSE "idle"]
    /\ number_of_threads = 1
    /\ i = 0
    /\ option_data = NoOptionData
    /\ model_parameters = [rng |-> "", fdm |-> 0, payoff |-> ""]
    /\ parameter_names = <<>>
    /\ explicit_euler = FALSE
    /\ NSteps = 0
    /\ stock_flunct = <<>>
    /\ option_prices = <<>>
    /\ m_price = Zero
    /\ gp = [c \in Ctx |-> NoGP]
    /\ \E p \in PriceSamples :
         loc = [c \in Ctx |-> IF c = 0 THEN [NoLocals EXCEPT !.mis_out.price = p]
                                        ELSE NoLocals]
    /\ exact_price \in PriceSamples
    /\ mean_price = Zero /\ max_price = Zero /\ min_price = Zero
    /\ SD = Zero /\ SE = Zero /\ decision \in BOOLEAN /\ elapsed_time = 0
    /\ start = 0 /\ end = 0 /\ clock = 1
    /\ normal_stream \in Streams
    /\ nonfinite_int \in IntOfNonFinite
    /\ multi_output_list = <<>>
    /\ out_log = <<>>
    /\ gp_calls = 0
    /\ last_run = NoRun
    /\ run_marks = NoMarks
    /\ selections = <<>>

NextMIS ==
    \/ DecisionMaking(0)
    \/ getStatistics(0)

SpecMIS == InitMIS /\ [][NextMIS]_vars

(***************************************************************************)
(* MIS used twice on the same pricer output: ComputeStatistics, ExactPrice, *)
(* DecisionMaking and getStatistics applied by one caller (1) and then     *)
(* again by another (0), the stopwatch marks being left alone              *)
(***************************************************************************)
\* terminal values a run can leave in stock_flunct
TerminalSamples ==
    { <<>>, << D(5, 2) >>, << D(5, 2), D(7, 3) >>, << D(320, 123), D(240, 41) >>,
      << PosInf, One >>, << NaN >> }

\* the tuple MIS_output() returns for a sample of terminal values
PricerOutputOf(raw, name, scheme, price, sample) ==
    LET o == setOptionData(raw, Typed(Len(sample)))
    IN [price |-> price, option_data |-> o, stock_prices |-> sample,
        option_prices |-> [k \in DOMAIN sample |-> ApplyPayoff(payoff(name).fn, o.K, sample[k])],
        names |-> <<Gaussian(1).name, FDM(scheme).name, name>>]

PricerOutputs ==
    { PricerOutputOf(raw, name, 1, price, sample) :
        raw \in RawContracts, name \in PayoffNames, price \in {Zero, D(1, 2)},
        sample \in TerminalSamples }

InitAgain ==
    /\ pc = [c \in Ctx |-> IF c \in {0, 1} THEN "ComputeStatistics" ELSE "idle"]
    /\ number_of_threads = 1
    /\ i = 0
    /\ option_data = NoOptionData
    /\ model_parameters = [rng |-> "", fdm |-> 0, payoff |-> ""]
    /\ parameter_names = <<>>
    /\ explicit_euler = FALSE
    /\ NSteps = 0
    /\ stock_flunct = <<>>
    /\ option_prices = <<>>
    /\ m_price = Zero
    /\ gp = [c \in Ctx |-> NoGP]
    /\ \E res \in PricerOutputs :
         loc = [c \in Ctx |-> IF c \in {0, 1} THEN [NoLocals EXCEPT !.mis_out = res]
                                              ELSE NoLocals]
    /\ exact_price = Zero
    /\ mean_price \in {Zero, D(5, 1)}
    /\ max_price = Zero /\ min_price = Zero
    /\ SD = Zero /\ SE = Zero /\ decision \in BOOLEAN /\ elapsed_time = 0
    /\ start = 1 /\ end = 3 /\ clock = 4
    /\ normal_stream \in Streams
    /\ nonfinite_int \in IntOfNonFinite
    /\ multi_output_list = <<>>
    /\ out_log = <<>>
    /\ gp_calls = 0
    /\ last_run = NoRun
    /\ run_marks = NoMarks
    /\ selections = <<>>

\* the statistics steps of Builder::run after MIS_output()
StatisticsStep(c) ==
    \/ ComputeStatistics(c)
    \/ ExactPrice(c)
    \/ DecisionMaking(c)
    \/ getStatistics(c)

\* the second application starts when the first has returned its record
NextAgain ==
    \/ StatisticsStep(1)
    \/ (pc[1] = "ResetStopWatch" /\ StatisticsStep(0))

SpecAgain == InitAgain /\ [][NextAgain]_vars

(***************************************************************************)
(* MIS::ExactPrice used on the same contract for a Call (caller 1) and     *)
(* then for a Put (caller 0)                                               *)
(***************************************************************************)
\* contracts the user can type: every value passes the checks of setOptionData
ParityContracts ==
    { [vol |-> Typed(v), r |-> Typed(r), T |-> Typed(T), S |-> Typed(S), K |-> Typed(K)] :
        v \in {Zero, D(1, 2), D(1, 10)}, r \in {Zero, D(1, 10)}, T \in {Zero, One, D(1, 4)},
        S \in {Zero, D(4, 1), D(100, 1)}, K \in {Zero, D(3, 1), D(120, 1)} }

InitParity ==
    /\ pc = [c \in Ctx |-> IF c \in {0, 1} THEN "ExactPrice" ELSE "idle"]
    /\ number_of_threads = 1
    /\ i = 0
    /\ option_data = NoOptionData
    /\ model_parameters = [rng |-> "", fdm |-> 0, payoff |-> ""]
    /\ parameter_names = <<>>
    /\ explicit_euler = FALSE
    /\ NSteps = 0
    /\ stock_flunct = <<>>
    /\ option_prices = <<>>
    /\ m_price = Zero
    /\ gp = [c \in Ctx |-> NoGP]
    /\ \E raw \in ParityContracts, call \in CallNames, put \in PayoffNames \ CallNames :
         loc = [c \in Ctx |->
                  IF c = 1
                  THEN [NoLocals EXCEPT !.mis_out = PricerOutputOf(raw, call, 1, Zero, <<One>>)]
                  ELSE IF c = 0
                  THEN [NoLocals EXCEPT !.mis_out = PricerOutputOf(raw, put, 1, Zero, <<One>>)]
                  ELSE NoLocals]
    /\ exact_price = Zero
    /\ mean_price = Zero /\ max_price = Zero /\ min_price = Zero
    /\ SD = Zero /\ SE = Zero /\ decision = FALSE /\ elapsed_time = 0
    /\ start = 1 /\ end = 3 /\ clock = 4
    /\ normal_stream \in Streams
    /\ nonfinite_int \in IntOfNonFinite
    /\ multi_output_list = <<>>
    /\ out_log = <<>>
    /\ gp_calls = 0
    /\ last_run = NoRun
    /\ run_marks = NoMarks
    /\ selections = <<>>

\* the steps of Builder::run from ExactPrice to the record
ExactPriceStep(c) ==
    \/ ExactPrice(c)
    \/ DecisionMaking(c)
    \/ getStatistics(c)

NextParity ==
    \/ ExactPriceStep(1)
    \/ (pc[1] = "ResetStopWatch" /\ ExactPriceStep(0))

SpecParity == InitParity /\ [][NextParity]_vars

(***************************************************************************)
(* TestPlainMC.cpp: main(), the hard-coded plain Monte Carlo test          *)
(***************************************************************************)
\* lines 39-43: the hard-coded option data
PlainOptionData(nsim) ==
    [vol |-> D(3, 10), r |-> D(2, 25), T |-> D(1, 4), S |-> D(60, 1), K |-> D(65, 1),
     NSIM |-> nsim]

\* line 86: VNew = VOld + dt * r * VOld + (dt_sq * vol * VOld * dW)
PlainUpdate(VOld, r, vol, dt, dt_sq, dW) ==
    DAdd(DAdd(VOld, DMul(DMul(dt, r), VOld)), DMul(DMul(DMul(dt_sq, vol), VOld), dW))

\* lines 81-90: the time loop of one path, one update per variate of zs
RECURSIVE PlainTimeLoop(_, _, _, _)
PlainTimeLoop(g, o, zs, V) ==
    IF zs = <<>> THEN V
    ELSE PlainTimeLoop(g, o, Tail(zs), PlainUpdate(V, o.r, o.vol, g.dt, g.dt_sq, zs[1]))

\* line 93: std::max(VNew - K, 0.0)
PlainPayoff(VNew, K) == DMax(DSub(VNew, K), Zero)

\* lines 103-108: the lambda exact_price
PlainExactPrice(o) ==
    LET d1 == DDiv(DAdd(DLog(DDiv(o.S, o.K)),
                        DMul(DAdd(o.r, DDiv(DPow(o.vol, 2), D(2, 1))), o.T)),
                   DMul(o.vol, DSqrt(o.T)))
        d2 == DSub(d1, DMul(o.vol, DSqrt(o.T)))
    IN DSub(DMul(DMul(o.S, DExp(DMul(DSub(o.r, o.r), o.T))), DCdf(d1)),
            DMul(DMul(o.K, DExp(DMul(DNeg(o.r), o.T))), DCdf(d2)))

InitPlain ==
    /\ pc = [c \in Ctx |-> IF c = 0 THEN "plain_input" ELSE "idle"]
    /\ number_of_threads = 0
    /\ i = 0
    /\ option_data = PlainOptionData(0)
    /\ model_parameters = [rng |-> "", fdm |-> 0, payoff |-> ""]
    /\ parameter_names = <<>>
    /\ explicit_euler = FALSE
    /\ NSteps \in UnsetSteps
    /\ stock_flunct = <<>>
    /\ option_prices = <<>>
    /\ m_price = Zero
    /\ gp = [c \in Ctx |-> NoGP]
    /\ loc = [c \in Ctx |-> NoLocals]
    /\ exact_price = Zero /\ mean_price = Zero /\ max_price = Zero /\ min_price = Zero
    /\ SD = Zero /\ SE = Zero /\ decision = FALSE /\ elapsed_time = 0
    /\ start = 0 /\ end = 0 /\ clock = 1
    /\ normal_stream \in Streams
    /\ nonfinite_int \in IntOfNonFinite
    /\ multi_output_list = <<>>
    /\ out_log = <<>>
    /\ gp_calls = 0
    /\ last_run = NoRun
    /\ run_marks = NoMarks
    /\ selections = <<>>

\* lines 45-66: NSIM and NSteps are read, dt and dt_sq computed, the start time taken
PlainInput ==
    /\ pc[0] = "plain_input"
    /\ \E nsim \in RawNSIM \ {FailedInt}, steps \in RawSteps :
         /\ option_data' = PlainOptionData(nsim.val)
         /\ NSteps' = steps.val
         /\ LET dt == DDiv(option_data.T, ToDouble(steps.val))
            IN gp' = [gp EXCEPT ![0] = [NoGP EXCEPT !.NSIM = nsim.val, !.dt = dt,
                                                    !.dt_sq = DSqrt(dt), !.eng = "mt19937",
                                                    !.i = 1]]
    /\ start' = clock
    /\ clock' = clock + 1
    /\ pc' = [pc EXCEPT ![0] = "plain_loop"]
    /\ UNCHANGED <<mainVars, model_parameters, parameter_names, explicit_euler, stock_flunct,
                   option_prices, m_price, loc, statVars, end, normal_stream, nonfinite_int,
                   multi_output_list, out_log, histVars>>

\* lines 69-94: one pass of the path loop
PlainPath ==
    /\ pc[0] = "plain_loop"
    /\ gp[0].i <= gp[0].NSIM
    /\ LET zs == Draw(normal_stream, gp[0].drawn, NSteps + 1)
           VNew == PlainTimeLoop(gp[0], option_data, zs, option_data.S)
       IN /\ gp' = [gp EXCEPT ![0] =
                      [@ EXCEPT !.VOld = VNew, !.VNew = VNew,
                                !.price = DAdd(@, DDiv(PlainPayoff(VNew, option_data.K),
                                                       ToDouble(gp[0].NSIM))),
                                !.drawn = @ + NSteps + 1, !.i = @ + 1]]
          /\ last_run' = [last_run EXCEPT !.zs = Append(@, zs)]
    /\ UNCHANGED <<pc, mainVars, pricerVars, loc, statVars, watchVars, multi_output_list,
                   out_log, gp_calls, run_marks, selections>>

\* lines 96-100: the loop is left, the price is discounted, the end time taken
PlainDiscount ==
    /\ pc[0] = "plain_loop"
    /\ ~(gp[0].i <= gp[0].NSIM)
    /\ m_price' = DMul(gp[0].price, DExp(DMul(DNeg(option_data.r), option_data.T)))
    /\ end' = clock
    /\ clock' = clock + 1
    /\ pc' = [pc EXCEPT ![0] = "plain_print"]
    /\ UNCHANGED <<mainVars, option_data, model_parameters, parameter_names, explicit_euler,
                   NSteps, stock_flunct, option_prices, gp, loc, statVars, start,
                   normal_stream, nonfinite_int, multi_output_list, out_log, histVars>>

\* lines 111-112: the approximated price and the exact price are printed
PlainPrint ==
    /\ pc[0] = "plain_print"
    /\ exact_price' = PlainExactPrice(option_data)
    /\ out_log' = Append(out_log, [call |-> "prices", approximation |-> m_price,
                                   exact |-> PlainExactPrice(option_data)])
    /\ pc' = [pc EXCEPT ![0] = "plain_report"]
    /\ UNCHANGED <<mainVars, pricerVars, gp, loc, mean_price, max_price, min_price, SD, SE,
                   decision, elapsed_time, watchVars, multi_output_list, histVars>>

\* lines 115-129: the input parameters, the model parameters and the elapsed time
PlainReport ==
    /\ pc[0] = "plain_report"
    /\ out_log' = Append(out_log, [call |-> "parameters", option_data |-> option_data,
                                   NSteps |-> NSteps, scheme |-> "Explicit Euler Approximation",
                                   engine |-> "Mersenne Twister Random Engine",
                                   payoff |-> "Euro Put", elapsed |-> end - start])
    /\ pc' = [pc EXCEPT ![0] = "plain_end"]
    /\ UNCHANGED <<mainVars, pricerVars, gp, loc, statVars, watchVars, multi_output_list,
                   histVars>>

NextPlain ==
    \/ PlainInput
    \/ PlainPath
    \/ PlainDiscount
    \/ PlainPrint
    \/ PlainReport

SpecPlain == InitPlain /\ [][NextPlain]_vars

(***************************************************************************)
(* The loop counters of GeneralPricer at their width.  The counters i and  *)
(* j are unsigned, NSIM and NSteps are unsigned long; the comparison       *)
(* converts the counter to unsigned long, which keeps its value.  The      *)
(* widths are scaled down: unsigned has UnsignedBits bits and unsigned     *)
(* long has UnsignedBits bits (where long is as wide as int) or LongBits   *)
(* bits, so NSIM and NSteps range over 0..ULongMax.  Only the counters, the *)
(* loop conditions and the push_back of every path are kept; the values of *)
(* the paths are immaterial to them.                                       *)
(***************************************************************************)
UnsignedBits == 2

LongBits == 3

\* the number of simulated paths after which the observation stops
MaxCount == 10

UnsignedMax == 2 ^ UnsignedBits - 1

ULongMax == 2 ^ LongBits - 1

\* i++, ++i and j++ on an unsigned counter
IncUnsigned(k) == (k + 1) % (2 ^ UnsignedBits)

\* lines 228 and 280: j <= NSteps
TimeLoopCond(j, steps) == j <= steps

NoCounters == [NSIM |-> 0, fdm_model_choice |-> 0, i |-> 0, j |-> 0]

InitWidth ==
    /\ pc = [c \in Ctx |-> IF c = 0 THEN "counter_begin" ELSE "idle"]
    /\ number_of_threads = 0
    /\ i = 0
    /\ option_data = NoOptionData
    /\ model_parameters = [rng |-> "", fdm |-> 0, payoff |-> ""]
    /\ parameter_names = <<>>
    /\ explicit_euler = FALSE
    /\ NSteps \in UnsetSteps
    /\ stock_flunct = <<>>
    /\ option_prices = <<>>
    /\ m_price = Zero
    /\ gp = [c \in Ctx |-> NoCounters]
    /\ loc = [c \in Ctx |-> NoLocals]
    /\ exact_price = Zero /\ mean_price = Zero /\ max_price = Zero /\ min_price = Zero
    /\ SD = Zero /\ SE = Zero /\ decision = FALSE /\ elapsed_time = 0
    /\ start = 0 /\ end = 0 /\ clock = 1
    /\ normal_stream \in Streams
    /\ nonfinite_int \in IntOfNonFinite
    /\ multi_output_list = <<>>
    /\ out_log = <<>>
    /\ gp_calls = 0
    /\ last_run = [wrapped |-> FALSE, returned |-> FALSE]
    /\ run_marks = NoMarks
    /\ selections = <<>>

\* lines 144-148, 183, 216, 268: NSIM and the scheme are read, the path counter starts
CounterBegin ==
    /\ pc[0] = "counter_begin"
    /\ \E nsim \in 0 .. ULongMax, steps \in 0 .. ULongMax, fdm \in {1, 2, 3} :
         /\ NSteps' = IF fdm = 1 THEN NSteps ELSE steps
         /\ gp' = [gp EXCEPT ![0] = [NSIM |-> nsim, fdm_model_choice |-> fdm,
                                     i |-> IF fdm = 1 THEN 0 ELSE 1, j |-> 0]]
    /\ pc' = [pc EXCEPT ![0] = "counter_path"]
    /\ gp_calls' = gp_calls + 1
    /\ UNCHANGED <<mainVars, option_data, model_parameters, parameter_names, explicit_euler,
                   stock_flunct, option_prices, m_price, loc, statVars, watchVars,
                   multi_output_list, out_log, last_run, run_marks, selections>>

\* lines 183-206: one pass of the path loop of GBM
CounterPathGBM ==
    /\ pc[0] = "counter_path"
    /\ gp[0].fdm_model_choice = 1
    /\ PathLoopCond(1, gp[0].i, gp[0].NSIM)
    /\ Len(stock_flunct) < MaxCount
    /\ stock_flunct' = Append(stock_flunct, Zero)
    /\ option_prices' = Append(option_prices, Zero)
    /\ gp' = [gp EXCEPT ![0].i = IncUnsigned(@)]
    /\ last_run' = [last_run EXCEPT !.wrapped = @ \/ gp[0].i = UnsignedMax]
    /\ UNCHANGED <<pc, mainVars, option_data, model_parameters, parameter_names,
                   explicit_euler, NSteps, m_price, loc, statVars, watchVars,
                   multi_output_list, out_log, gp_calls, run_marks, selections>>

\* lines 216-228, 268-280: a path of Explicit Euler or Milstein starts, j = 0
CounterPathBegin ==
    /\ pc[0] = "counter_path"
    /\ gp[0].fdm_model_choice # 1
    /\ PathLoopCond(gp[0].fdm_model_choice, gp[0].i, gp[0].NSIM)
    /\ Len(stock_flunct) < MaxCount
    /\ gp' = [gp EXCEPT ![0].j = 0]
    /\ explicit_euler' = TRUE
    /\ pc' = [pc EXCEPT ![0] = "counter_step"]
    /\ UNCHANGED <<mainVars, option_data, model_parameters, parameter_names, NSteps,
                   stock_flunct, option_prices, m_price, loc, statVars, watchVars,
                   multi_output_list, out_log, histVars>>

\* lines 228-242, 280-295: one pass of the time loop
CounterStep ==
    /\ pc[0] = "counter_step"
    /\ TimeLoopCond(gp[0].j, NSteps)
    /\ gp' = [gp EXCEPT ![0].j = IncUnsigned(@)]
    /\ last_run' = [last_run EXCEPT !.wrapped = @ \/ gp[0].j = UnsignedMax]
    /\ UNCHANGED <<pc, mainVars, pricerVars, loc, statVars, watchVars, multi_output_list,
                   out_log, gp_calls, run_marks, selections>>

\* lines 244-256, 297-308: the time loop is left, the path is stored, ++i
CounterPathEnd ==
    /\ pc[0] = "counter_step"
    /\ ~TimeLoopCond(gp[0].j, NSteps)
    /\ stock_flunct' = Append(stock_flunct, Zero)
    /\ option_prices' = Append(option_prices, Zero)
    /\ gp' = [gp EXCEPT ![0].i = IncUnsigned(@)]
    /\ last_run' = [last_run EXCEPT !.wrapped = @ \/ gp[0].i = UnsignedMax]
    /\ pc' = [pc EXCEPT ![0] = "counter_path"]
    /\ UNCHANGED <<mainVars, option_data, model_parameters, parameter_names, explicit_euler,
                   NSteps, m_price, loc, statVars, watchVars, multi_output_list, out_log,
                   gp_calls, run_marks, selections>>

\* lines 208, 258, 310, 319-321: the path loop is left and GeneralPricer returns
CounterReturn ==
    /\ pc[0] = "counter_path"
    /\ ~PathLoopCond(gp[0].fdm_model_choice, gp[0].i, gp[0].NSIM)
    /\ last_run' = [last_run EXCEPT !.returned = TRUE]
    /\ pc' = [pc EXCEPT ![0] = "counter_end"]
    /\ UNCHANGED <<mainVars, pricerVars, gp, loc, statVars, watchVars, multi_output_list,
                   out_log, gp_calls, run_marks, selections>>

NextWidth ==
    \/ CounterBegin
    \/ CounterPathGBM
    \/ CounterPathBegin
    \/ CounterStep
    \/ CounterPathEnd
    \/ CounterReturn

SpecWidth == InitWidth /\ [][NextWidth]_vars

(***************************************************************************)
(* Properties                                                              *)
(***************************************************************************)
\* worker threads that exist: started and not yet joined
LiveWorkers == { c \in Ctx \ {0} : pc[c] \notin {"idle", "joined", "crashed"} }

\* the positions of a thread between the call of GeneralPricer and its return
InGeneralPricer(c) == pc[c] \in {"GeneralPricer", "path_loop"}

\* C1: in multi-pricing at most one worker thread exists at any moment, the caller waits in
\* join() while it exists, and the worker of run k+1 is not started before the worker of
\* run k has finished and was joined: the runs execute one after the other
C1_RunsAreSequential ==
    /\ Cardinality(LiveWorkers) <= 1
    /\ \A c \in LiveWorkers : pc[0] = "join" /\ c = i + 1
    /\ \A c \in Ctx \ {0, 1} : pc[c] # "idle" => pc[c - 1] = "joined"
    /\ Cardinality({ c \in Ctx : InGeneralPricer(c) }) <= 1

C1_Witness ==
    /\ number_of_threads > 1
    /\ pc[1] = "joined"
    /\ pc[2] = "path_loop"
    /\ Len(stock_flunct) = 1

\* C2: in multi-pricing the sample vectors are empty whenever GeneralPricer starts, and the
\* vectors handed to ComputeStatistics hold exactly the paths of the run just priced
C2_NoForeignSamples ==
    \A c \in Ctx :
       /\ (number_of_threads > 1 /\ pc[c] = "GeneralPricer")
             => (stock_flunct = <<>> /\ option_prices = <<>>)
       /\ (number_of_threads > 1 /\ pc[c] = "ComputeStatistics")
             => /\ last_run.first = 0
                /\ Len(loc[c].mis_out.stock_prices) = Len(last_run.zs)
                /\ Len(loc[c].mis_out.option_prices) = Len(last_run.zs)

C2_Witness ==
    /\ number_of_threads > 1
    /\ pc[2] = "GeneralPricer"
    /\ Len(multi_output_list) = 1
    /\ multi_output_list[1].pricer_res.option_data.NSIM = 2
    /\ stock_flunct = <<>>

\* workers that have stored their entry in the list
Stored == { c \in Ctx \ {0} : pc[c] \in {"ClearStockFlunctuationsVector",
                                          "ClearTempOptionPriceVector", "finished", "joined"} }

MultiPrintCalls == { k \in DOMAIN out_log : out_log[k].call = "MultiPrint" }

\* C3: one entry per run is appended, after the pricing and the statistics of that run, the
\* k-th entry being the output of run k; after the loop the list holds number_of_threads
\* entries and MultiPrint was called once, on that list
C3_OneEntryPerRun ==
    number_of_threads > 1 =>
       /\ Len(multi_output_list) = Cardinality(Stored)
       /\ \A k \in DOMAIN multi_output_list :
             /\ k \in Stored
             /\ multi_output_list[k] = [pricer_res |-> loc[k].general_output,
                                        mis |-> loc[k].mis_output]
       /\ Cardinality(MultiPrintCalls) = IF pc[0] \in {"done", "end"} THEN 1 ELSE 0
       /\ \A k \in MultiPrintCalls :
             /\ out_log[k].list = multi_output_list
             /\ Len(out_log[k].list) = number_of_threads

C3_Witness ==
    /\ number_of_threads = 2
    /\ pc[0] = "end"
    /\ Len(multi_output_list) = 2
    /\ multi_output_list[1] # multi_output_list[2]

\* the terminal value of a path from its variates, by the update of the scheme
RECURSIVE TerminalValue(_, _, _, _, _)
TerminalValue(fdm, o, steps, zs, V) ==
    IF zs = <<>> THEN V
    ELSE LET dt == DDiv(o.T, ToDouble(steps))
             W == IF fdm = 2 THEN EulerUpdate(V, o.r, o.vol, dt, DSqrt(dt), zs[1])
                  ELSE MilsteinUpdate(V, o.r, o.vol, dt, DSqrt(dt), zs[1])
         IN TerminalValue(fdm, o, steps, Tail(zs), W)

PathValue(fdm, o, steps, zs) ==
    IF fdm = 1
    THEN DMul(GBM(o.S, o.T, o.vol, o.r), DExp(DMul(DSqrt(DMul(DMul(o.vol, o.vol), o.T)), zs[1])))
    ELSE TerminalValue(fdm, o, steps, zs, o.S)

\* C4: when GeneralPricer returns from a run that started with empty vectors, both vectors
\* hold NSIM entries, the k-th being the terminal value of the k-th path and its payoff
C4_OneSamplePerPath ==
    \A c \in Ctx :
       (pc[c] = "EndStopWatch" /\ last_run.first = 0) =>
          /\ Len(stock_flunct) = option_data.NSIM
          /\ Len(option_prices) = option_data.NSIM
          /\ Len(last_run.zs) = option_data.NSIM
          /\ \A k \in DOMAIN stock_flunct :
                /\ stock_flunct[k] = PathValue(model_parameters.fdm, option_data,
                                               last_run.NSteps, last_run.zs[k])
                /\ option_prices[k] = ApplyPayoff(model_parameters.payoff, option_data.K,
                                                  stock_flunct[k])

C4_Witness ==
    \E c \in Ctx :
       /\ pc[c] = "EndStopWatch"
       /\ model_parameters.fdm = 3
       /\ option_data.NSIM = 2
       /\ Len(stock_flunct) = 2
       /\ IsFinite(stock_flunct[1])
       /\ stock_flunct[1] # stock_flunct[2]
       /\ option_prices[1] # option_prices[2]

\* C5: the price GeneralPricer returns is exp(-r*T) times the sum of the payoffs retained
\* in the run divided by NSIM
C5_PriceIsDiscountedMean ==
    \A c \in Ctx :
       pc[c] = "EndStopWatch" =>
          m_price = DMul(DExp(DMul(DNeg(option_data.r), option_data.T)),
                         DDiv(SumSeq(SubSeq(option_prices, last_run.first + 1,
                                            Len(option_prices))),
                              ToDouble(option_data.NSIM)))

\* |a - b| < 1/100 on the rationals; false when a or b is not finite
DiffBelowHundredth(a, b) ==
    /\ IsFinite(a)
    /\ IsFinite(b)
    /\ 100 * AbsI(a[1] * b[2] - b[1] * a[2]) < a[2] * b[2]

\* C6: after DecisionMaking the flag is true exactly when the exact price and the estimated
\* price differ by less than 0.01, whatever the flag was before
C6_DecisionIsStrict ==
    pc[0] = "getStatistics" => (decision <=> DiffBelowHundredth(exact_price, loc[0].mis_out.price))

C6_Witness ==
    /\ pc[0] = "getStatistics"
    /\ DSub(exact_price, loc[0].mis_out.price) = D(1, 100)
    /\ decision = FALSE

\* C7: a run of Explicit Euler or Milstein with NSteps = 0 never reaches the path loop
C7_ZeroStepsRejected ==
    \A c \in Ctx :
       (pc[c] = "path_loop" /\ gp[c].fdm_model_choice \in {2, 3}) => last_run.NSteps # 0

\* C8: ComputeStatistics does not complete with statistics for a sample of one payoff
C8_SingleSampleRejected ==
    \A c \in Ctx :
       pc[c] = "ExactPrice" => Len(loc[c].mis_out.option_prices) # 1

\* C9: the path loop of GeneralPricer is not reached with a negative volatility, rate,
\* expiry, spot or strike, or with NSIM < 1
C9_OutOfDomainRejected ==
    \A c \in Ctx :
       pc[c] = "path_loop" =>
          /\ ~DLess(gp[c].vol, Zero) /\ ~DLess(gp[c].r, Zero) /\ ~DLess(gp[c].T, Zero)
          /\ ~DLess(gp[c].S, Zero) /\ ~DLess(gp[c].K, Zero)
          /\ gp[c].NSIM >= 1

\* C10: when the path loop starts on data collected by get(), NSIM >= 1, and NSteps >= 1
\* if the scheme is Explicit Euler or Milstein
C10_LoopStartsValid ==
    \A c \in Ctx :
       (pc[c] = "path_loop" /\ gp[c].i = (IF gp[c].fdm_model_choice = 1 THEN 0 ELSE 1)) =>
          /\ option_data.NSIM >= 1
          /\ (model_parameters.fdm \in {2, 3} => NSteps >= 1)

\* the asset values recorded at the steps of a path: one value per update, from its variates
RECURSIVE StepValues(_, _, _, _, _)
StepValues(fdm, o, steps, zs, V) ==
    IF zs = <<>> THEN <<>>
    ELSE LET dt == DDiv(o.T, ToDouble(steps))
             W == IF fdm = 2 THEN EulerUpdate(V, o.r, o.vol, dt, DSqrt(dt), zs[1])
                  ELSE MilsteinUpdate(V, o.r, o.vol, dt, DSqrt(dt), zs[1])
         IN <<W>> \o StepValues(fdm, o, steps, Tail(zs), W)

\* the arithmetic mean of the values recorded at the steps of a path
PathMean(fdm, o, steps, zs) ==
    LET vs == StepValues(fdm, o, steps, zs, o.S)
    IN DDiv(SumSeq(vs), ToDouble(Len(vs)))

\* C11: when GeneralPricer returns from an Explicit Euler or Milstein run of an Asian payoff,
\* the payoff retained for each path is the payoff function applied to the arithmetic mean
\* of the asset values recorded at the steps of that path
C11_AsianUsesPathMean ==
    \A c \in Ctx :
       (/\ pc[c] = "EndStopWatch"
        /\ last_run.first = 0
        /\ model_parameters.fdm \in {2, 3}
        /\ MatchesAsian(parameter_names[3])) =>
          \A k \in DOMAIN option_prices :
             option_prices[k] = ApplyPayoff(model_parameters.payoff, option_data.K,
                                            PathMean(model_parameters.fdm, option_data,
                                                     last_run.NSteps, last_run.zs[k]))

\* C12: when ComputeStatistics has completed on a non-empty sample, the mean asset value is
\* the sum of the terminal values handed to it divided by their count
C12_MeanIsArithmeticMean ==
    \A c \in Ctx :
       (pc[c] = "ExactPrice" /\ loc[c].mis_out.stock_prices # <<>>) =>
          mean_price = DDiv(SumSeq(loc[c].mis_out.stock_prices),
                            ToDouble(Len(loc[c].mis_out.stock_prices)))

\* the sum of the squares of the entries of a sample
RECURSIVE SumSqSeq(_)
SumSqSeq(s) ==
    IF s = <<>> THEN Zero ELSE DAdd(SumSqSeq(SubSeq(s, 1, Len(s) - 1)), DPow(s[Len(s)], 2))

\* C13: when ComputeStatistics has completed on finite payoffs, the sum and the sum of squares it used are
\* those of the payoff entries themselves, SD is the standard deviation formula applied to
\* them and to the number of payoffs, and SE is SD / sqrt(n)
C13_DeviationOfPayoffSample ==
    \A c \in Ctx :
       (/\ pc[c] = "ExactPrice"
        /\ \A k \in DOMAIN loc[c].mis_out.option_prices :
              IsFinite(loc[c].mis_out.option_prices[k])) =>
          LET res == loc[c].mis_out
              n == Len(res.option_prices)
          IN /\ loc[c].sum = SumSeq(res.option_prices)
             /\ loc[c].sum_sq = SumSqSeq(res.option_prices)
             /\ SD = StandardDeviation(loc[c].sum, loc[c].sum_sq, n, res.option_data.r,
                                       res.option_data.T)
             /\ SE = StandardError(SD, n)

\* C14: the record getStatistics() returns after a second application of ComputeStatistics,
\* ExactPrice and DecisionMaking to the same pricer output, with the same stopwatch marks,
\* equals the record returned after the first application
C14_AggregationIsRepeatable ==
    (pc[0] = "Print" /\ pc[1] = "ResetStopWatch") => loc[0].mis_output = loc[1].mis_output

C14_Witness ==
    /\ pc[0] = "Print"
    /\ pc[1] = "ResetStopWatch"
    /\ Len(loc[0].mis_out.stock_prices) = 2
    /\ loc[0].mis_output.mean_price = D(2, 1)
    /\ loc[0].mis_output.max_price = D(5, 2)
    /\ loc[0].mis_output.elapsed_time = 2
    /\ loc[0].mis_output.exact_price # Zero
    /\ ~loc[1].mis_output.decision

\* C15: two runs of GeneralPricer that started at different clock readings and drew variates
\* have not drawn the same sequence of variates
C15_RunsDrawDifferentVariates ==
    \A c \in Ctx :
       (/\ pc[c] = "EndStopWatch"
        /\ gp_calls >= 2
        /\ last_run.started # last_run.prev_started
        /\ last_run.zs # <<>>) =>
          last_run.zs # last_run.prev_zs

\* the engine that the generator function chosen in RNG::Gaussian constructs
EngineOfGenerator(fn) ==
    IF fn = "MersenneTwisterEngine" THEN "mt19937" ELSE "default_random_engine"

\* the engine that a recorded engine name names
EngineOfName(name) ==
    IF name = "Mersenne Twister" THEN "mt19937" ELSE "default_random_engine"

\* C16: in the path loop the engine GeneralPricer draws from is the engine of the generator
\* chosen in RNG::Gaussian, and the engine name recorded for reporting names that engine
C16_ChosenEngineIsUsed ==
    \A c \in Ctx :
       pc[c] = "path_loop" =>
          /\ gp[c].eng = EngineOfGenerator(model_parameters.rng)
          /\ gp[c].eng = EngineOfName(parameter_names[1])

\* the positions of thread c at which the record of its run has been taken by getStatistics
RecordTaken(c) ==
    IF c = 0 THEN number_of_threads = 1 /\ pc[0] \in {"Print", "done", "end"}
    ELSE pc[c] \in {"ResetStopWatch", "push_back", "ClearStockFlunctuationsVector",
                    "ClearTempOptionPriceVector", "finished", "joined"}

\* C17: in every run the start mark is taken before GeneralPricer starts, the end mark after
\* GeneralPricer has returned and before ComputeStatistics, and the elapsed time of the
\* record of the run (and of its entry in the list) is the end mark of that run minus the
\* start mark of that run, which is not 0
C17_ElapsedTimeOfOwnRun ==
    /\ \A c \in Ctx :
          /\ pc[c] \in {"GeneralPricer", "path_loop", "EndStopWatch"} =>
                /\ run_marks[c].start > 0
                /\ run_marks[c].start = start
                /\ run_marks[c].end = 0
          /\ pc[c] \in {"path_loop", "EndStopWatch"} =>
                /\ last_run.c = c
                /\ last_run.started = run_marks[c].start
          /\ pc[c] = "path_loop" => ~last_run.returned
          /\ pc[c] \in {"EndStopWatch", "output", "MIS_output", "ComputeStatistics"} =>
                /\ last_run.c = c
                /\ last_run.returned
                /\ last_run.started = run_marks[c].start
          /\ pc[c] \in {"output", "MIS_output", "ComputeStatistics"} =>
                /\ run_marks[c].end = end
                /\ run_marks[c].start = start
                /\ run_marks[c].end > run_marks[c].start
          /\ RecordTaken(c) =>
                /\ loc[c].mis_output.elapsed_time = run_marks[c].end - run_marks[c].start
                /\ loc[c].mis_output.elapsed_time # 0
    /\ \A k \in DOMAIN multi_output_list :
          multi_output_list[k].mis.elapsed_time = run_marks[k].end - run_marks[k].start

C17_Witness ==
    /\ Len(multi_output_list) = 2
    /\ run_marks[2].start > run_marks[1].end
    /\ multi_output_list[1].mis.elapsed_time = run_marks[1].end - run_marks[1].start
    /\ multi_output_list[2].mis.elapsed_time = run_marks[2].end - run_marks[2].start
    /\ multi_output_list[2].mis.elapsed_time > 0
    /\ elapsed_time = 0

\* C18: once get() has returned, no step of run() changes the option data, the scheme choice,
\* the generator or the names of the engine and the scheme; the payoff function and the payoff
\* name are changed only by setPayoffParameter between two runs of multi-pricing
C18_ContractIsReadOnly ==
    [][ pc[0] \notin {"run", "get"} =>
          /\ option_data' = option_data
          /\ model_parameters'.fdm = model_parameters.fdm
          /\ model_parameters'.rng = model_parameters.rng
          /\ \/ /\ parameter_names' = parameter_names
                /\ model_parameters' = model_parameters
             \/ /\ pc[0] = "next_payoff"
                /\ Len(parameter_names') = Len(parameter_names)
                /\ parameter_names'[1] = parameter_names[1]
                /\ parameter_names'[2] = parameter_names[2] ]_vars

C18_Witness ==
    /\ Len(multi_output_list) = 2
    /\ multi_output_list[1].pricer_res.names[3] # multi_output_list[2].pricer_res.names[3]
    /\ multi_output_list[1].pricer_res.names[2] = multi_output_list[2].pricer_res.names[2]
    /\ multi_output_list[1].pricer_res.option_data = option_data
    /\ multi_output_list[2].pricer_res.option_data = option_data
    /\ option_data.NSIM = 2
    /\ model_parameters.rng = "MersenneTwisterEngine"

\* C19: the exact price computed for a Call minus the exact price computed for a Put on the
\* same contract equals S - K * exp(-r * T)
C19_PutCallParity ==
    (pc[0] = "Print" /\ pc[1] = "ResetStopWatch") =>
       LET o == loc[0].mis_out.option_data
       IN DSub(loc[1].mis_output.exact_price, loc[0].mis_output.exact_price)
             = DSub(o.S, DMul(o.K, DExp(DMul(DNeg(o.r), o.T))))

C19_Witness ==
    /\ pc[0] = "Print"
    /\ pc[1] = "ResetStopWatch"
    /\ loc[0].mis_out.option_data = loc[1].mis_out.option_data
    /\ loc[0].mis_out.option_data.S = D(100, 1)
    /\ loc[0].mis_out.option_data.K = D(120, 1)
    /\ loc[0].mis_out.option_data.r = D(1, 10)
    /\ loc[0].mis_out.option_data.vol = D(1, 2)
    /\ DLess(Zero, loc[0].mis_output.exact_price)
    /\ DLess(Zero, loc[1].mis_output.exact_price)
    /\ loc[1].mis_out.names[3] = "Asian Call"

\* number of paths the path loop of thread c has completed
PathsDone(c) == IF gp[c].fdm_model_choice = 1 THEN gp[c].i ELSE gp[c].i - 1

\* C20: in the path loop of an Explicit Euler or Milstein run every completed path has drawn
\* NSteps + 1 variates and applied the update NSteps + 1 times, one variate per update; in a
\* GBM run every completed path has drawn one variate and no update was applied
C20_UpdatesAndVariatesPerPath ==
    \A c \in Ctx :
       pc[c] = "path_loop" =>
          LET per_path == IF gp[c].fdm_model_choice = 1 THEN 1 ELSE NSteps + 1
          IN /\ Len(last_run.zs) = PathsDone(c)
             /\ \A k \in DOMAIN last_run.zs : Len(last_run.zs[k]) = per_path
             /\ gp[c].drawn = PathsDone(c) * per_path
             /\ gp[c].updates = IF gp[c].fdm_model_choice = 1 THEN 0 ELSE gp[c].drawn

C20_Witness ==
    \E c \in Ctx :
       /\ pc[c] = "path_loop"
       /\ gp[c].fdm_model_choice = 3
       /\ NSteps = 1
       /\ PathsDone(c) = 2
       /\ gp[c].updates = 4
       /\ gp[c].drawn = 4

\* C21: in the path loop of an Explicit Euler or Milstein run, the terminal value retained
\* for every completed path is the result of the updates applied from the spot price S to
\* the variates of that path alone, its payoff is the payoff function applied to that value,
\* and the averaging accumulator carries nothing from one path to the next
C21_PathsAreIndependent ==
    \A c \in Ctx :
       (pc[c] = "path_loop" /\ gp[c].fdm_model_choice \in {2, 3}) =>
          /\ gp[c].average_price = Zero
          /\ Len(stock_flunct) = last_run.first + Len(last_run.zs)
          /\ \A k \in DOMAIN last_run.zs :
                /\ stock_flunct[last_run.first + k]
                      = TerminalValue(gp[c].fdm_model_choice, option_data, NSteps,
                                      last_run.zs[k], option_data.S)
                /\ option_prices[last_run.first + k]
                      = ApplyPayoff(model_parameters.payoff, option_data.K,
                                    stock_flunct[last_run.first + k])

C21_Witness ==
    \E c \in Ctx :
       /\ pc[c] = "path_loop"
       /\ gp[c].fdm_model_choice = 2
       /\ NSteps = 1
       /\ Len(last_run.zs) = 2
       /\ last_run.zs[1] # last_run.zs[2]
       /\ IsFinite(stock_flunct[1])
       /\ stock_flunct[1] # option_data.S
       /\ stock_flunct[1] # stock_flunct[2]
       /\ MatchesAsian(parameter_names[3])

\* the payoff names whose last word is Call
NamesEndingInCall == { "European Call", "Asian Call" }

\* C22: when ExactPrice has returned, the exact price is the Black-Scholes call price of the
\* contract if the payoff name of the run ends in "Call" and the put price otherwise
C22_FormulaFollowsName ==
    \A c \in Ctx :
       pc[c] = "DecisionMaking" =>
          LET o == loc[c].mis_out.option_data
          IN exact_price = IF loc[c].mis_out.names[3] \in NamesEndingInCall
                           THEN BS_call(o.vol, o.r, o.T, o.S, o.K)
                           ELSE BS_put(o.vol, o.r, o.T, o.S, o.K)

C22_Witness ==
    \E c \in Ctx :
       LET o == loc[c].mis_out.option_data
       IN /\ pc[c] = "DecisionMaking"
          /\ loc[c].mis_out.names[3] = "Asian Call"
          /\ exact_price = BS_call(o.vol, o.r, o.T, o.S, o.K)
          /\ exact_price # BS_put(o.vol, o.r, o.T, o.S, o.K)
          /\ number_of_threads > 1
          /\ c = 2
          /\ multi_output_list[1].pricer_res.names[3] = "Asian Put"

\* C23: the diffusion derivative that the Milstein update is given equals 0.5 * vol at the
\* asset values of a run: at the spot price, from which every path starts, and at every
\* finite terminal value retained
C23_DerivativeIsConstant ==
    \A c \in Ctx :
       (pc[c] = "path_loop" /\ gp[c].fdm_model_choice = 3) =>
          /\ diffusion_derivative(gp[c].vol, gp[c].S) = DMul(D(1, 2), gp[c].vol)
          /\ \A k \in DOMAIN stock_flunct :
                IsFinite(stock_flunct[k]) =>
                   diffusion_derivative(gp[c].vol, stock_flunct[k]) = DMul(D(1, 2), gp[c].vol)

\* the positions of thread c at which output() has returned the tuple of its run
OutputTaken(c) ==
    \/ pc[c] \in {"MIS_output", "ComputeStatistics", "ExactPrice", "DecisionMaking",
                  "getStatistics"}
    \/ RecordTaken(c)

\* C24: the tuple output() returns for a run holds NSteps = 0 if the scheme is GBM and the
\* NSteps the run was simulated with if it is Explicit Euler or Milstein; the same holds for
\* the entry of every run in the list of multi-pricing
C24_ReportedSteps ==
    /\ \A c \in Ctx :
          (OutputTaken(c) /\ last_run.c = c) =>
             loc[c].general_output.NSteps
                = IF model_parameters.fdm = 1 THEN 0 ELSE last_run.NSteps
    /\ \A k \in DOMAIN multi_output_list :
          /\ multi_output_list[k].pricer_res.NSteps = loc[k].general_output.NSteps
          /\ multi_output_list[k].pricer_res.NSteps
                = IF model_parameters.fdm = 1 THEN 0 ELSE last_run.NSteps

C24_Witness ==
    /\ Len(multi_output_list) = 2
    /\ model_parameters.fdm = 2
    /\ last_run.NSteps = 1
    /\ multi_output_list[1].pricer_res.NSteps = 1
    /\ multi_output_list[2].pricer_res.NSteps = 1

\* the sum of max(K - V, 0) / NSIM over the paths simulated from the given variates
RECURSIVE PlainPutSum(_, _, _)
PlainPutSum(g, o, zss) ==
    IF zss = <<>> THEN Zero
    ELSE DAdd(PlainPutSum(g, o, SubSeq(zss, 1, Len(zss) - 1)),
              DDiv(DMax(DSub(o.K, PlainTimeLoop(g, o, zss[Len(zss)], o.S)), Zero),
                   ToDouble(o.NSIM)))

\* C25: in the plain Monte Carlo test the payoff summed for each path with terminal value V
\* is max(K - V, 0), and the exact price printed is the Black-Scholes put price of the
\* hard-coded contract
C25_PlainTestPricesPut ==
    /\ pc[0] = "plain_loop" => gp[0].price = PlainPutSum(gp[0], option_data, last_run.zs)
    /\ pc[0] \in {"plain_report", "plain_end"} =>
          /\ exact_price = BS_put(option_data.vol, option_data.r, option_data.T,
                                  option_data.S, option_data.K)
          /\ out_log[1].exact = exact_price

\* the positions of a run at which MIS has taken the tuple of MIS_output()
MisTaken(c) ==
    pc[c] \in {"ComputeStatistics", "ExactPrice", "DecisionMaking", "getStatistics"}

\* C26: in multi-pricing the k-th run starts after exactly k selections of a payoff; the payoff
\* function it applies to its paths, the payoff name in the tuples output() and MIS_output()
\* return for it (from which ExactPrice chooses the formula) and the name stored in its entry
\* of the list all come from the k-th selection
C26_FunctionAndNameFromSameSelection ==
    number_of_threads > 1 =>
       /\ \A c \in LiveWorkers :
             /\ Len(selections) = c
             /\ pc[c] = "path_loop" => gp[c].option_payoff = payoff(selections[c]).fn
             /\ OutputTaken(c) => loc[c].general_output.names[3] = selections[c]
             /\ MisTaken(c) => loc[c].mis_out.names[3] = payoff(selections[c]).name
       /\ \A k \in DOMAIN multi_output_list :
             multi_output_list[k].pricer_res.names[3] = selections[k]

C26_Witness ==
    /\ number_of_threads > 1
    /\ pc[2] = "path_loop"
    /\ selections = <<"European Call", "Asian Put">>
    /\ last_run.c = 2
    /\ gp[2].option_payoff = "Put"
    /\ PathsDone(2) >= 1
    /\ multi_output_list[1].pricer_res.names[3] = "European Call"

\* C27: for every NSIM and NSteps of an unsigned long, the largest included, no loop counter
\* of GeneralPricer wraps around, no more than NSIM paths are simulated, and GeneralPricer
\* returns after exactly NSIM paths
C27_CountersNeverWrap ==
    pc[0] \in {"counter_path", "counter_step", "counter_end"} =>
       /\ ~last_run.wrapped
       /\ Len(stock_flunct) <= gp[0].NSIM
       /\ pc[0] = "counter_end" => Len(stock_flunct) = gp[0].NSIM

\* C28: when ComputeStatistics has completed on a non-empty sample of finite terminal values,
\* min_price <= mean_price <= max_price
C28_MeanBetweenMinAndMax ==
    \A c \in Ctx :
       (/\ pc[c] = "ExactPrice"
        /\ loc[c].mis_out.stock_prices # <<>>
        /\ \A k \in DOMAIN loc[c].mis_out.stock_prices :
              IsFinite(loc[c].mis_out.stock_prices[k])) =>
          /\ ~DLess(mean_price, min_price)
          /\ ~DLess(max_price, mean_price)

\* C29: GeneralPricer is never invoked more often than the requested count N, and when run()
\* has come to its end it was invoked exactly N times; for N = 0 no option data and no payoff
\* were requested, nothing was priced, and the only output is "Non-Deterministic Request"
C29_OnePricingPerRequestedPrice ==
    /\ gp_calls <= number_of_threads
    /\ pc[0] = "end" => gp_calls = number_of_threads
    /\ (pc[0] = "end" /\ number_of_threads = 0) =>
          /\ option_data = NoOptionData
          /\ parameter_names = <<>>
          /\ selections = <<>>
          /\ stock_flunct = <<>> /\ option_prices = <<>>
          /\ multi_output_list = <<>>
          /\ out_log = <<[call |-> "message", text |-> "Non-Deterministic Request"]>>

C29_Witness ==
    /\ pc[0] = "end"
    /\ number_of_threads = 2
    /\ gp_calls = 2
    /\ Len(multi_output_list) = 2
    /\ out_log[Len(out_log)] = [call |-> "done"]

====
